---- MODULE Spec2Model ----
(***************************************************************************)
(* State machine of public/javascripts/store.js (class Store): the catalog *)
(* load, the payment summary, quantity edits, the payment-intent requests  *)
(* they fire, and the other fetch wrappers.  One JavaScript job (a handler *)
(* run to its next await, with the microtasks it queues) is one action.    *)
(***************************************************************************)
EXTENDS Integers, Sequences, FiniteSets, TLC

(* ---------------------------------------------------------------- bounds *)
\* Calls the page's other scripts and its inputs make on the store.
MaxCalls == 3

(* ---------------------------------------------------------- environment *)
ProductIds == {"p1", "p2"}

\* What GET /products/{id}/skus (or an embedded skus list) holds: data[0].
SkuOf(id) ==
  IF id = "p1" THEN [id |-> "sku1", price |-> 1000, currency |-> "usd"]
               ELSE [id |-> "sku2", price |-> 250, currency |-> "eur"]

\* The product lists GET /products may answer with (ids unique, in order).
Catalogs == {<<>>, <<"p1">>, <<"p1", "p2">>}

\* Values a quantity input may hold when its oninput handler runs.
InputValues == { <<>>, <<"a", "b">>, <<"3">>, <<"0">>, <<"-", "2">> }

(* ------------------------------------------------------ JavaScript values *)
NaN == [nan |-> TRUE, num |-> 0]
Num(n) == [nan |-> FALSE, num |-> n]

\* ToBoolean of a number: NaN and 0 are falsy.
Truthy(v) == ~v.nan /\ v.num # 0

DigitChars == {"0", "1", "2", "3", "4", "5", "6", "7", "8", "9"}

DigitVal(c) ==
  CASE c = "0" -> 0 [] c = "1" -> 1 [] c = "2" -> 2 [] c = "3" -> 3
    [] c = "4" -> 4 [] c = "5" -> 5 [] c = "6" -> 6 [] c = "7" -> 7
    [] c = "8" -> 8 [] c = "9" -> 9

RECURSIVE SkipSpace(_)
SkipSpace(s) ==
  IF s # <<>> /\ Head(s) = " " THEN SkipSpace(Tail(s)) ELSE s

\* The value of the longest prefix of decimal digits of s, read after acc.
RECURSIVE DigitRun(_, _)
DigitRun(s, acc) ==
  IF s # <<>> /\ Head(s) \in DigitChars
    THEN DigitRun(Tail(s), 10 * acc + DigitVal(Head(s)))
    ELSE acc

\* parseInt(string): leading white space, an optional sign, then the longest
\* run of digits; NaN when there is no digit.  (-0 is read as 0: the code
\* only tests it for truthiness and multiplies it.)
ParseInt(str) ==
  LET s    == SkipSpace(str)
      neg  == s # <<>> /\ Head(s) = "-"
      body == IF s # <<>> /\ Head(s) \in {"-", "+"} THEN Tail(s) ELSE s
  IN  IF body = <<>> \/ Head(body) \notin DigitChars
        THEN NaN
        ELSE Num(IF neg THEN 0 - DigitRun(body, 0) ELSE DigitRun(body, 0))

(* ------------------------------------------------------------ formatPrice *)
CurrencySymbol(currency) ==
  IF currency = "usd" THEN "$" ELSE IF currency = "eur" THEN "EUR" ELSE "?"

\* formatPrice(amount, currency): amount.toFixed(2) of an integer amount is
\* the amount itself with the fraction digits 00; Intl.NumberFormat then
\* prints that number as en-US currency (sign, symbol, units, 2 decimals).
formatPrice(amount, currency) ==
  [ symbol   |-> CurrencySymbol(currency),
    negative |-> amount < 0,
    major    |-> IF amount < 0 THEN 0 - amount ELSE amount,
    minor    |-> 0 ]

\* innerText of an element no code has written yet.
NoText == [symbol |-> "", negative |-> FALSE, major |-> 0, minor |-> 0]

(* ------------------------------------------------------------------ state *)
VARIABLES
  backend,              \* what the server answers: the catalog, and the
                        \* products that embed their skus (all of them, or
                        \* with the newer API version none)
  products,             \* this.products, in insertion order
  quantity,             \* this.quantity
  lineItems,            \* this.lineItems
  config,               \* this.config
  productsFetchPromise, \* this.productsFetchPromise and that promise's state
  paymentIntent,        \* this.paymentIntent (store.paymentIntent)
  loadPc,               \* where the executor of loadProducts stands
  displayPc,            \* where displayPaymentSummary stands
  fetches,              \* every request issued, with its outcome and the
                        \* value the issuing operation returned
  loadReturns,          \* what the loadProducts calls returned
  dom,                  \* the elements the store writes
  lastEdit,             \* the latest updateQuantity call and how it ended
  calls                 \* how many calls the page has made on the store

vars == << backend, products, quantity, lineItems, config,
           productsFetchPromise, paymentIntent, loadPc, displayPc, fetches,
           loadReturns, dom, lastEdit, calls >>

NoSkus == [loaded |-> FALSE, id |-> "", price |-> 0, currency |-> ""]
Skus(id) == [loaded |-> TRUE, id |-> SkuOf(id).id, price |-> SkuOf(id).price,
             currency |-> SkuOf(id).currency]

NullConfig == [loaded |-> FALSE, currency |-> ""]
NullIntent == [kind |-> "null", req |-> 0]
UndefinedIntent == [kind |-> "undefined", req |-> 0]
NoPromise == [id |-> 0, state |-> "none"]

\* A fetch in flight: its endpoint, the id in its path, and its JSON body.
Request(url, arg, currency, items) ==
  [ url |-> url, arg |-> arg, currency |-> currency, items |-> items,
    amount |-> 0, status |-> "pending", ret |-> "pending" ]

IndexOf(id) == CHOOSE i \in 1..Len(products) : products[i].id = id

(* -------------------------------------------------------- getPaymentTotal *)
RECURSIVE SumItems(_, _)
SumItems(items, prods) ==
  IF items = <<>> THEN 0
  ELSE LET it == Head(items)
           p  == prods[CHOOSE i \in 1..Len(prods) : prods[i].id = it.product]
       IN  (IF Truthy(it.quantity) THEN it.quantity.num ELSE 0) * p.skus.price
           + SumItems(Tail(items), prods)

getPaymentTotalOf(items, prods) == SumItems(items, prods)
getPaymentTotal == getPaymentTotalOf(lineItems, products)

(* ----------------------------------------------------------- getLineItems *)
getLineItemsOf(items) ==
  [ i \in 1..Len(items) |->
      [type |-> "sku", parent |-> items[i].sku, quantity |-> items[i].quantity] ]

(* ----------------------------------------------------------- rerenderTotal *)
\* rerenderTotal writing the subtotal only.
rerenderTotalSubtotalOnly(d, items, prods, currency) ==
  LET paymentTotal == SumItems(items, prods)
  IN  [d EXCEPT !.subtotal =
         formatPrice(IF paymentTotal # 0 THEN paymentTotal ELSE 0, currency)]

\* rerenderTotal(currency): writes the subtotal and the total, returns the text.
displayTotalOf(items, prods, currency) ==
  LET paymentTotal == getPaymentTotalOf(items, prods)
  IN  formatPrice(IF paymentTotal # 0 THEN paymentTotal ELSE 0, currency)

rerenderTotal(d, items, prods, currency) ==
  [d EXCEPT !.subtotal = displayTotalOf(items, prods, currency),
            !.total    = displayTotalOf(items, prods, currency)]

\* updateButtonLabel(amount): the submit button reads `Pay ${amount}`.
updateButtonLabel(d, amount) ==
  [d EXCEPT !.button = [prefix |-> "Pay ", amount |-> amount]]

(* --------------------------------------------------- displayPaymentSummary *)
\* The loop of displayPaymentSummary from product i on, over the state st =
\* [lineItems, dom, currency, pc].  product.skus.data[0] of a product whose
\* skus were never attached is a TypeError: the function ends there, keeping
\* what the earlier iterations rendered and pushed.
RECURSIVE displayLoop(_, _, _, _)
displayLoop(prods, qty, i, st) ==
  IF i > Len(prods)
    THEN [st EXCEPT !.dom = rerenderTotal(st.dom, st.lineItems, prods, st.currency),
                    !.pc = "done"]
  ELSE LET product == prods[i]
           sku     == product.skus
       IN  IF ~sku.loaded
             THEN [st EXCEPT !.pc = "threw"]
             ELSE displayLoop(prods, qty, i + 1,
                    [st EXCEPT
                       !.dom.inputs = @ \cup {product.id},
                       !.dom.price[product.id] =
                          formatPrice(sku.price * qty[product.id], sku.currency),
                       !.currency = sku.currency,
                       !.lineItems = Append(@, [product  |-> product.id,
                                                sku      |-> sku.id,
                                                quantity |-> Num(qty[product.id])])])

displayPaymentSummary(prods, qty, items, d) ==
  displayLoop(prods, qty, 1,
              [lineItems |-> items, dom |-> d, currency |-> "", pc |-> "awaitLoad"])

(* ------------------------------------------------------------ loadProducts *)
\* loadProducts() without its memo test: every call starts an executor.
loadProductsUnmemoized(pfp, log) ==
  [ promise |-> [id |-> pfp.id + 1, state |-> "pending"],
    fetches |-> Append(log, Request("/products", "", "", <<>>)),
    started |-> TRUE ]

\* loadProducts(): the memo test and, on the first call, the start of the
\* executor up to its first await.  Returns the promise handed back, the
\* request log and whether an executor was started.
loadProducts(pfp, log) ==
  IF pfp.state = "none"
    THEN [ promise |-> [id |-> pfp.id + 1, state |-> "pending"],
           fetches |-> Append(log, Request("/products", "", "", <<>>)),
           started |-> TRUE ]
    ELSE [ promise |-> pfp, fetches |-> log, started |-> FALSE ]

\* The for loop of the executor from catalog entry i on, over the state st =
\* [products, quantity, fetches, pc]: it stores the product and its zero
\* quantity, and stops at the first product without skus to await loadSkus;
\* past the last product it calls resolve().
RECURSIVE loadLoop(_, _, _, _)
loadLoop(cat, embedded, i, st) ==
  IF i > Len(cat)
    THEN [st EXCEPT !.pc = [at |-> "done", index |-> 0]]
  ELSE LET id  == cat[i]
           has == id \in embedded
           st1 == [st EXCEPT
                     !.products = Append(@, [id   |-> id,
                                             skus |-> IF has THEN Skus(id) ELSE NoSkus]),
                     !.quantity = [p \in DOMAIN @ \cup {id} |->
                                     IF p = id THEN 0 ELSE @[p]]]
       IN  IF has
             THEN loadLoop(cat, embedded, i + 1, st1)
             ELSE [st1 EXCEPT
                     !.fetches = Append(@, Request("/products/skus", id, "", <<>>)),
                     !.pc = [at |-> "awaitSkus", index |-> i]]

\* The index in the log of the pending request to url (for arg), 0 if none.
PendingIndex(log, url, arg) ==
  IF \E i \in 1..Len(log) :
       log[i].url = url /\ log[i].arg = arg /\ log[i].status = "pending"
    THEN CHOOSE i \in 1..Len(log) :
           log[i].url = url /\ log[i].arg = arg /\ log[i].status = "pending"
    ELSE 0

Settle(log, i, status, ret) ==
  [log EXCEPT ![i].status = status, ![i].ret = ret]

NoDom ==
  [ inputs   |-> {},
    price    |-> [p \in ProductIds |-> NoText],
    subtotal |-> NoText,
    total    |-> NoText,
    button   |-> [prefix |-> "", amount |-> NoText] ]

NoEdit == [id |-> "", parsed |-> NaN, outcome |-> "none", requested |-> FALSE,
           intentBefore |-> "null"]

\* new Store(): the field initialisers, then displayPaymentSummary() up to
\* its await of loadProducts(), whose executor issues GET /products.
Init ==
  LET r == loadProducts(NoPromise, <<>>)
  IN  /\ backend \in [catalog : Catalogs, embedded : {{}, ProductIds}]
      /\ products = <<>>
      /\ quantity = << >>
      /\ lineItems = <<>>
      /\ config = NullConfig
      /\ productsFetchPromise = r.promise
      /\ fetches = r.fetches
      /\ loadPc = [at |-> "awaitProducts", index |-> 0]
      /\ displayPc = "awaitLoad"
      /\ loadReturns = {[promise |-> r.promise.id, at |-> "constructor"]}
      /\ paymentIntent = NullIntent
      /\ dom = NoDom
      /\ lastEdit = NoEdit
      /\ calls = 0

\* The executor after a step that left it at pc, and the continuation of
\* displayPaymentSummary that resolve() releases in the same job.
AfterLoadStep(st) ==
  IF st.pc.at = "done"
    THEN LET shown == displayPaymentSummary(st.products, st.quantity, lineItems, dom)
         IN  /\ productsFetchPromise' = [productsFetchPromise EXCEPT !.state = "resolved"]
             /\ lineItems' = shown.lineItems
             /\ dom' = shown.dom
             /\ displayPc' = shown.pc
    ELSE /\ UNCHANGED << productsFetchPromise, lineItems, dom, displayPc >>

\* An external caller (payments.js) calls store.loadProducts().
LoadProducts ==
  LET r == loadProducts(productsFetchPromise, fetches)
  IN  /\ calls < MaxCalls
      /\ calls' = calls + 1
      /\ productsFetchPromise' = r.promise
      /\ fetches' = r.fetches
      /\ loadPc' = IF r.started THEN [at |-> "awaitProducts", index |-> 0] ELSE loadPc
      /\ loadReturns' = loadReturns \cup
            {[promise |-> r.promise.id,
              at |-> IF productsFetchPromise.state = "pending"
                       THEN "pending" ELSE "settled"]}
      /\ UNCHANGED << backend, products, quantity, lineItems, config, paymentIntent,
                      displayPc, dom, lastEdit >>

\* GET /products answers: the executor reads the list, throws on an empty
\* one (the promise is then never settled), else runs its loop.
ProductsLoaded ==
  /\ loadPc.at = "awaitProducts"
  /\ LET i  == PendingIndex(fetches, "/products", "")
         st == loadLoop(backend.catalog, backend.embedded, 1,
                        [ products |-> products, quantity |-> quantity,
                          fetches |-> Settle(fetches, i, "ok", "data"),
                          pc |-> loadPc ])
     IN  /\ i # 0
         /\ IF Len(backend.catalog) = 0
              THEN /\ loadPc' = [at |-> "threw", index |-> 0]
                   /\ fetches' = Settle(fetches, i, "ok", "data")
                   /\ UNCHANGED << products, quantity, productsFetchPromise,
                                   lineItems, dom, displayPc >>
              ELSE /\ loadPc' = st.pc
                   /\ fetches' = st.fetches
                   /\ products' = st.products
                   /\ quantity' = st.quantity
                   /\ AfterLoadStep(st)
  /\ UNCHANGED << calls, backend, config, paymentIntent, loadReturns, lastEdit >>

\* GET /products rejects (or its body is no JSON): the await throws inside
\* the async executor, which has no handler; resolve() is never called.
ProductsFailed ==
  /\ loadPc.at = "awaitProducts"
  /\ LET i == PendingIndex(fetches, "/products", "")
     IN  /\ i # 0
         /\ fetches' = Settle(fetches, i, "rejected", "threw")
  /\ loadPc' = [at |-> "threw", index |-> 0]
  /\ UNCHANGED << calls, backend, products, quantity, lineItems, config,
                  productsFetchPromise, paymentIntent, displayPc, loadReturns,
                  dom, lastEdit >>

\* loadSkus(id) gets its answer: it attaches the skus and returns undefined;
\* the executor's loop goes on with the next product.
SkusLoaded ==
  /\ loadPc.at = "awaitSkus"
  /\ LET id == backend.catalog[loadPc.index]
         i  == PendingIndex(fetches, "/products/skus", id)
         st == loadLoop(backend.catalog, backend.embedded, loadPc.index + 1,
                        [ products |-> [products EXCEPT ![IndexOf(id)].skus = Skus(id)],
                          quantity |-> quantity,
                          fetches |-> Settle(fetches, i, "ok", "undefined"),
                          pc |-> loadPc ])
     IN  /\ i # 0
         /\ loadPc' = st.pc
         /\ fetches' = st.fetches
         /\ products' = st.products
         /\ quantity' = st.quantity
         /\ AfterLoadStep(st)
  /\ UNCHANGED << calls, backend, config, paymentIntent, loadReturns, lastEdit >>

\* loadSkus(id) fails: it catches, returns {error}, and the executor, which
\* ignores that value, goes on with the next product.
SkusFailed ==
  /\ loadPc.at = "awaitSkus"
  /\ LET id == backend.catalog[loadPc.index]
         i  == PendingIndex(fetches, "/products/skus", id)
         st == loadLoop(backend.catalog, backend.embedded, loadPc.index + 1,
                        [ products |-> products,
                          quantity |-> quantity,
                          fetches |-> Settle(fetches, i, "rejected", "errorObject"),
                          pc |-> loadPc ])
     IN  /\ i # 0
         /\ loadPc' = st.pc
         /\ fetches' = st.fetches
         /\ products' = st.products
         /\ quantity' = st.quantity
         /\ AfterLoadStep(st)
  /\ UNCHANGED << calls, backend, config, paymentIntent, loadReturns, lastEdit >>

(* ---------------------------------------------------------------- getConfig *)
\* An external caller calls store.getConfig(): GET /config is issued.
GetConfig ==
  /\ calls < MaxCalls
  /\ calls' = calls + 1
  /\ fetches' = Append(fetches, Request("/config", "", "", <<>>))
  /\ UNCHANGED << backend, products, quantity, lineItems, config,
                  productsFetchPromise, paymentIntent, loadPc, displayPc,
                  loadReturns, dom, lastEdit >>

\* GET /config answers: this.config is set and the config returned.
ConfigLoaded ==
  /\ \E i \in 1..Len(fetches) :
       /\ fetches[i].url = "/config" /\ fetches[i].status = "pending"
       /\ fetches' = Settle(fetches, i, "ok", "data")
  /\ config' = [loaded |-> TRUE, currency |-> "usd"]
  /\ UNCHANGED << calls, backend, products, quantity, lineItems, productsFetchPromise,
                  paymentIntent, loadPc, displayPc, loadReturns, dom, lastEdit >>

\* GET /config rejects: the catch returns {error}; this.config is not set.
ConfigFailed ==
  /\ \E i \in 1..Len(fetches) :
       /\ fetches[i].url = "/config" /\ fetches[i].status = "pending"
       /\ fetches' = Settle(fetches, i, "rejected", "errorObject")
  /\ UNCHANGED << calls, backend, products, quantity, lineItems, config,
                  productsFetchPromise, paymentIntent, loadPc, displayPc,
                  loadReturns, dom, lastEdit >>

(* ------------------------------------------------------ createPaymentIntent *)
\* createPaymentIntent without its all-zero test.
createPaymentIntentUnguarded(log, currency, items) ==
  Append(log, Request("/payment_intents", "", currency, items))

\* createPaymentIntent reusing a stored intent: an update request instead of
\* a second create request.
createPaymentIntentReusing(log, currency, items) ==
  IF \A i \in 1..Len(items) : ~Truthy(items[i].quantity)
    THEN log
    ELSE IF paymentIntent.kind = "intent"
      THEN Append(log, [Request("/payment_intents/shipping_change", "", "", items)
                          EXCEPT !.amount = paymentIntent.req])
      ELSE Append(log, Request("/payment_intents", "", currency, items))

\* createPaymentIntent(currency, items) up to its await: returns at once when
\* no item has a truthy quantity, else issues POST /payment_intents.
createPaymentIntent(log, currency, items) ==
  IF \A i \in 1..Len(items) : ~Truthy(items[i].quantity)
    THEN log
    ELSE Append(log, Request("/payment_intents", "", currency, items))

(* -------------------------------------------------------------- updateTotal *)
\* The loop of updateTotal from product i on, over st = [dom, currency, ok]:
\* a product without skus makes product.skus.data a TypeError, which ends
\* updateTotal (and updateQuantity) with the prices written so far.
RECURSIVE updateTotalLoop(_, _, _, _)
updateTotalLoop(prods, qty, i, st) ==
  IF i > Len(prods) THEN st
  ELSE LET product   == prods[i]
           sku       == product.skus
           itemTotal == sku.price * qty[product.id]
       IN  IF ~sku.loaded
             THEN [st EXCEPT !.ok = FALSE]
             ELSE updateTotalLoop(prods, qty, i + 1,
                    [st EXCEPT
                       !.currency = sku.currency,
                       !.dom.price[product.id] =
                          formatPrice(IF itemTotal # 0 THEN itemTotal ELSE 0,
                                      sku.currency)])

updateTotal(prods, qty, items, d) ==
  LET st == updateTotalLoop(prods, qty, 1, [dom |-> d, currency |-> "", ok |-> TRUE])
      d1 == rerenderTotal(st.dom, items, prods, st.currency)
  IN  IF st.ok
        THEN [dom |-> updateButtonLabel(d1, d1.total), ok |-> TRUE]
        ELSE [dom |-> st.dom, ok |-> FALSE]

(* ----------------------------------------------------------- updateQuantity *)
\* An invalid input defaulting to one item instead of none.
storedQuantityDefaultOne(q) == IF q.nan THEN 1 ELSE q.num

\* updateQuantity without its write to the line item.
setTargetItemSkipped(items, id, q) == items

\* updateQuantity pushing a new line item instead of writing the found one.
setTargetItemAppending(items, id, q) ==
  Append(items, [product |-> id, sku |-> SkuOf(id).id, quantity |-> q])

\* this.quantity[id] = quantity ? quantity : 0
storedQuantity(q) == IF Truthy(q) THEN q.num ELSE 0

\* targetItem = lineItems.find(item => item.product === id); if found, its
\* quantity becomes the parsed value as it is.
setTargetItem(items, id, q) ==
  IF \E i \in 1..Len(items) : items[i].product = id
    THEN LET t == CHOOSE i \in 1..Len(items) :
                    /\ items[i].product = id
                    /\ \A j \in 1..(i - 1) : items[j].product # id
         IN  [items EXCEPT ![t].quantity = q]
    ELSE items

\* The record of an updateQuantity call: the product, what parseInt made of
\* the input's value, how the call ended, whether it issued a request, and
\* the kind of intent reference stored when it ran.
Edit(id, value, outcome, requested) ==
  [ id |-> id, parsed |-> ParseInt(value), outcome |-> outcome,
    requested |-> requested, intentBefore |-> paymentIntent.kind ]

\* The oninput handler of the quantity input of product id, whose value is
\* value.  Without that input getElementById() is null and reading .value
\* throws; with this.config still null, this.config.currency throws after
\* updateTotal() has run.
UpdateQuantity(id, value) ==
  /\ calls < MaxCalls
  /\ calls' = calls + 1
  /\ IF id \notin dom.inputs
       THEN /\ lastEdit' = Edit(id, value, "threwNoInput", FALSE)
            /\ UNCHANGED << quantity, lineItems, dom, fetches >>
       ELSE LET q     == ParseInt(value)
                qty   == [quantity EXCEPT ![id] = storedQuantity(q)]
                items == setTargetItem(lineItems, id, q)
                ut    == updateTotal(products, qty, items, dom)
                log   == createPaymentIntent(fetches, config.currency,
                                             getLineItemsOf(items))
            IN  /\ quantity' = qty
                /\ lineItems' = items
                /\ dom' = ut.dom
                /\ IF ~ut.ok
                     THEN /\ fetches' = fetches
                          /\ lastEdit' = Edit(id, value, "threwInUpdateTotal", FALSE)
                     ELSE IF ~config.loaded
                       THEN /\ fetches' = fetches
                            /\ lastEdit' = Edit(id, value, "threwNoConfig", FALSE)
                       ELSE /\ fetches' = log
                            /\ lastEdit' = Edit(id, value, "returned", Len(log) > Len(fetches))
  /\ UNCHANGED << backend, products, config, productsFetchPromise,
                  paymentIntent, loadPc, displayPc, loadReturns >>

\* The handling of {paymentIntent} dropping a response that a later request's
\* response has overtaken.
IntentCreatedLatestOnly ==
  /\ \E i \in 1..Len(fetches) :
       /\ fetches[i].url = "/payment_intents" /\ fetches[i].status = "pending"
       /\ fetches' = Settle(fetches, i, "ok", "data")
       /\ paymentIntent' = IF paymentIntent.kind = "intent" /\ paymentIntent.req > i
                             THEN paymentIntent
                             ELSE [kind |-> "intent", req |-> i]
  /\ UNCHANGED << calls, backend, products, quantity, lineItems, config,
                  productsFetchPromise, loadPc, displayPc, loadReturns, dom,
                  lastEdit >>

\* POST /payment_intents answers {paymentIntent}: the reference is stored.
IntentCreated ==
  /\ \E i \in 1..Len(fetches) :
       /\ fetches[i].url = "/payment_intents" /\ fetches[i].status = "pending"
       /\ fetches' = Settle(fetches, i, "ok", "data")
       /\ paymentIntent' = [kind |-> "intent", req |-> i]
  /\ UNCHANGED << calls, backend, products, quantity, lineItems, config,
                  productsFetchPromise, loadPc, displayPc, loadReturns, dom,
                  lastEdit >>

\* The handling of {error} emptying the cart as well.
IntentRefusedClearingCart ==
  /\ \E i \in 1..Len(fetches) :
       /\ fetches[i].url = "/payment_intents" /\ fetches[i].status = "pending"
       /\ fetches' = Settle(fetches, i, "backendError", "errorObject")
  /\ paymentIntent' = UndefinedIntent
  /\ quantity' = [p \in DOMAIN quantity |-> 0]
  /\ UNCHANGED << calls, backend, products, lineItems, config,
                  productsFetchPromise, loadPc, displayPc, loadReturns, dom,
                  lastEdit >>

\* POST /payment_intents answers {error}: data.paymentIntent, which that body
\* lacks, is stored before the error field is looked at; {error} is returned.
IntentRefused ==
  /\ \E i \in 1..Len(fetches) :
       /\ fetches[i].url = "/payment_intents" /\ fetches[i].status = "pending"
       /\ fetches' = Settle(fetches, i, "backendError", "errorObject")
  /\ paymentIntent' = UndefinedIntent
  /\ UNCHANGED << calls, backend, products, quantity, lineItems, config,
                  productsFetchPromise, loadPc, displayPc, loadReturns, dom,
                  lastEdit >>

\* POST /payment_intents rejects: the catch returns {error}.
IntentFailed ==
  /\ \E i \in 1..Len(fetches) :
       /\ fetches[i].url = "/payment_intents" /\ fetches[i].status = "pending"
       /\ fetches' = Settle(fetches, i, "rejected", "errorObject")
  /\ UNCHANGED << calls, backend, products, quantity, lineItems, config,
                  productsFetchPromise, paymentIntent, loadPc, displayPc,
                  loadReturns, dom, lastEdit >>

(* -------------------------------------- updatePaymentIntentWithShippingCost *)
\* A caller passes the stored intent and the current line items.
UpdateShipping ==
  /\ calls < MaxCalls
  /\ calls' = calls + 1
  /\ paymentIntent.kind = "intent"
  /\ fetches' = Append(fetches,
                  [Request("/payment_intents/shipping_change", "", "",
                           getLineItemsOf(lineItems))
                     EXCEPT !.amount = paymentIntent.req])
  /\ UNCHANGED << backend, products, quantity, lineItems, config,
                  productsFetchPromise, paymentIntent, loadPc, displayPc,
                  loadReturns, dom, lastEdit >>

\* Its return value for a response body that carries an error field or not.
shippingResult(hasError) == IF hasError THEN "errorObject" ELSE "data"

ShippingAnswered ==
  /\ \E i \in 1..Len(fetches), hasError \in BOOLEAN :
       /\ fetches[i].url = "/payment_intents/shipping_change"
       /\ fetches[i].status = "pending"
       /\ fetches' = Settle(fetches, i, IF hasError THEN "backendError" ELSE "ok",
                            shippingResult(hasError))
  /\ UNCHANGED << calls, backend, products, quantity, lineItems, config,
                  productsFetchPromise, paymentIntent, loadPc, displayPc,
                  loadReturns, dom, lastEdit >>

ShippingFailed ==
  /\ \E i \in 1..Len(fetches) :
       /\ fetches[i].url = "/payment_intents/shipping_change"
       /\ fetches[i].status = "pending"
       /\ fetches' = Settle(fetches, i, "rejected", "errorObject")
  /\ UNCHANGED << calls, backend, products, quantity, lineItems, config,
                  productsFetchPromise, paymentIntent, loadPc, displayPc,
                  loadReturns, dom, lastEdit >>

(* ------------------------------------------------------------- createCharge *)
\* createCharge(token, metadata): with this.config null the body cannot be
\* built, the catch logs and nothing is sent; else POST /charges is issued
\* with the payment total.
CreateCharge ==
  /\ calls < MaxCalls
  /\ calls' = calls + 1
  /\ fetches' = IF config.loaded
                  THEN Append(fetches,
                         [Request("/charges", "", config.currency, <<>>)
                            EXCEPT !.amount = getPaymentTotal])
                  ELSE fetches
  /\ UNCHANGED << backend, products, quantity, lineItems, config,
                  productsFetchPromise, paymentIntent, loadPc, displayPc,
                  loadReturns, dom, lastEdit >>

\* What createCharge returns: the parsed body as it is, or, after the catch
\* has logged the failure, nothing (undefined).
chargeResult(rejected) == IF rejected THEN "undefined" ELSE "data"

ChargeAnswered ==
  /\ \E i \in 1..Len(fetches) :
       /\ fetches[i].url = "/charges" /\ fetches[i].status = "pending"
       /\ fetches' = Settle(fetches, i, "ok", chargeResult(FALSE))
  /\ UNCHANGED << calls, backend, products, quantity, lineItems, config,
                  productsFetchPromise, paymentIntent, loadPc, displayPc,
                  loadReturns, dom, lastEdit >>

ChargeFailed ==
  /\ \E i \in 1..Len(fetches) :
       /\ fetches[i].url = "/charges" /\ fetches[i].status = "pending"
       /\ fetches' = Settle(fetches, i, "rejected", chargeResult(TRUE))
  /\ UNCHANGED << calls, backend, products, quantity, lineItems, config,
                  productsFetchPromise, paymentIntent, loadPc, displayPc,
                  loadReturns, dom, lastEdit >>

Next ==
  \/ LoadProducts
  \/ ProductsLoaded
  \/ ProductsFailed
  \/ SkusLoaded
  \/ SkusFailed
  \/ GetConfig
  \/ ConfigLoaded
  \/ ConfigFailed
  \/ \E id \in ProductIds, value \in InputValues : UpdateQuantity(id, value)
  \/ IntentCreated
  \/ IntentRefused
  \/ IntentFailed
  \/ UpdateShipping
  \/ ShippingAnswered
  \/ ShippingFailed
  \/ CreateCharge
  \/ ChargeAnswered
  \/ ChargeFailed

Spec == Init /\ [][Next]_vars

(* =========================================================== properties *)
\* The catalog is loaded and the payment summary rendered to its end.
Rendered == displayPc = "done"

RECURSIVE QuantityTotal(_, _, _)
QuantityTotal(prods, qty, i) ==
  IF i > Len(prods) THEN 0
  ELSE qty[prods[i].id] * prods[i].skus.price + QuantityTotal(prods, qty, i + 1)

SomeTruthy(items) == \E i \in 1..Len(items) : Truthy(items[i].quantity)

Creates == {i \in 1..Len(fetches) : fetches[i].url = "/payment_intents"}

\* C1: once the catalog is loaded and rendered, after any edits, the payment
\* total is the sum over the catalog's products of the stored quantity times
\* the price of the product's first SKU.
C1_TotalIsSumOfQuantityTimesPrice ==
  Rendered => getPaymentTotal = QuantityTotal(products, quantity, 1)

C1_Witness ==
  /\ Rendered
  /\ Len(products) = 2
  /\ lastEdit.outcome = "returned"
  /\ \E p \in DOMAIN quantity : quantity[p] = 0
  /\ getPaymentTotal = 3000

C3_NoRequestWhenAllZero ==
  [][ /\ \A id \in ProductIds, value \in InputValues :
           (UpdateQuantity(id, value) /\ ~SomeTruthy(lineItems')) =>
              (fetches' = fetches /\ paymentIntent' = paymentIntent)
      /\ \A i \in 1..Len(fetches') :
           fetches'[i].url = "/payment_intents" => SomeTruthy(fetches'[i].items) ]_vars

C3_Witness ==
  /\ config.loaded
  /\ lastEdit.outcome = "returned"
  /\ ~lastEdit.requested
  /\ lastEdit.parsed.nan
  /\ Len(lineItems) = 2
  /\ Creates # {}

\* C4: however often loadProducts is called, pending or settled, at most one
\* GET /products and at most one SKU request per product are issued, and
\* every call returns the one memoized promise.
C4_CatalogFetchedOnce ==
  /\ Cardinality({i \in 1..Len(fetches) : fetches[i].url = "/products"}) <= 1
  /\ \A p \in ProductIds :
       Cardinality({i \in 1..Len(fetches) :
                      fetches[i].url = "/products/skus" /\ fetches[i].arg = p}) <= 1
  /\ \A r \in loadReturns : r.promise = productsFetchPromise.id
  /\ Cardinality({r.promise : r \in loadReturns}) = 1

C4_Witness ==
  /\ \E r \in loadReturns : r.at = "pending"
  /\ \E r \in loadReturns : r.at = "settled"
  /\ \E i \in 1..Len(fetches) : fetches[i].url = "/products/skus"

\* C5: an edit whose input parses to no integer leaves the stored quantity
\* of its product at 0, whatever it was before.
C5_InvalidInputStoresZero ==
  (lastEdit.outcome \notin {"none", "threwNoInput"} /\ lastEdit.parsed.nan)
    => quantity[lastEdit.id] = 0

C5_Witness ==
  /\ lastEdit.outcome = "returned"
  /\ lastEdit.parsed.nan
  /\ quantity[lastEdit.id] = 0
  /\ \E i \in Creates : \E k \in 1..Len(lineItems) :
       /\ lineItems[k].product = lastEdit.id
       /\ fetches[i].items[k].quantity = Num(3)

\* C6 as stated: every entry of the quantity map is a non-negative integer.
C6_QuantityNonNegative == \A p \in DOMAIN quantity : quantity[p] >= 0

\* The currency updateTotal hands to rerenderTotal: the last product's.
lastCurrency == products[Len(products)].skus.currency

\* C7: once an edit has completed its display update (it returned, or it
\* threw only afterwards for want of a configuration), the subtotal, the
\* total and the amount of the button label "Pay {amount}" are the formatted
\* payment total of the state the edit left, in every state up to the next
\* edit, whatever responses arrive in between.
C7_DisplayFollowsCompletedEdit ==
  lastEdit.outcome \in {"returned", "threwNoConfig"} =>
    /\ dom.subtotal = formatPrice(getPaymentTotal, lastCurrency)
    /\ dom.total = formatPrice(getPaymentTotal, lastCurrency)
    /\ dom.button = [prefix |-> "Pay ",
                     amount |-> formatPrice(getPaymentTotal, lastCurrency)]

C7_Witness ==
  /\ lastEdit.outcome = "returned"
  /\ lastEdit.intentBefore = "null"
  /\ paymentIntent.kind = "intent"
  /\ Len(products) = 2
  /\ getPaymentTotal = 3000
  /\ dom.total.major = 3000

\* A load failure: GET /products or a SKU request rejected, or an empty catalog.
LoadFailure ==
  \/ \E i \in 1..Len(fetches) :
       /\ fetches[i].url \in {"/products", "/products/skus"}
       /\ fetches[i].status = "rejected"
  \/ \E i \in 1..Len(fetches) :
       /\ fetches[i].url = "/products" /\ fetches[i].status = "ok"
       /\ backend.catalog = <<>>

\* C8 as stated: once the executor of loadProducts has ended after a load
\* failure, the promise loadProducts returns is settled with an error.
C8_LoadFailureSettlesWithError ==
  (LoadFailure /\ loadPc.at \in {"done", "threw"})
    => productsFetchPromise.state = "rejected"

\* C9 as stated: getConfig, loadSkus, createPaymentIntent,
\* updatePaymentIntentWithShippingCost and createCharge return {error} when
\* their fetch rejects, and the two payment-intent operations also when the
\* response body carries an error field.
C9_FailuresReturnErrorObject ==
  \A i \in 1..Len(fetches) :
    /\ ( /\ fetches[i].status = "rejected"
         /\ fetches[i].url \in {"/config", "/products/skus", "/payment_intents",
                                "/payment_intents/shipping_change", "/charges"} )
         => fetches[i].ret = "errorObject"
    /\ ( /\ fetches[i].status = "backendError"
         /\ fetches[i].url \in {"/payment_intents", "/payment_intents/shipping_change"} )
         => fetches[i].ret = "errorObject"

\* C10 as stated: with the one-product catalog priced 1000 in usd, an edit to
\* 3 gives the total 3000 displayed as $30.00, and an edit to 0 gives the
\* total 0 and issues no payment-intent request.
C10_EndToEndExample ==
  (backend.catalog = <<"p1">> /\ Rendered /\ lastEdit.outcome = "returned") =>
    /\ lastEdit.parsed = Num(3) =>
         /\ getPaymentTotal = 3000
         /\ dom.total = [symbol |-> "$", negative |-> FALSE, major |-> 30, minor |-> 0]
    /\ lastEdit.parsed = Num(0) =>
         /\ getPaymentTotal = 0
         /\ ~lastEdit.requested

\* C11: once displayPaymentSummary has run to its end, and after any edits
\* and responses, the line items are, in order, one entry per product of the
\* catalog and nothing else, each with the product's id and the id of the
\* product's first SKU.
C11_OneLineItemPerProduct ==
  Rendered =>
    /\ Len(lineItems) = Len(backend.catalog)
    /\ Len(products) = Len(backend.catalog)
    /\ \A i \in 1..Len(lineItems) :
         /\ lineItems[i].product = backend.catalog[i]
         /\ lineItems[i].product = products[i].id
         /\ lineItems[i].sku = products[i].skus.id
         /\ lineItems[i].sku = SkuOf(backend.catalog[i]).id

C11_Witness ==
  /\ Rendered
  /\ Len(lineItems) = 2
  /\ lastEdit.outcome = "returned"
  /\ lastEdit.id = "p2"
  /\ paymentIntent.kind \in {"intent", "undefined"}

\* No request is in flight.
Quiet == \A i \in 1..Len(fetches) : fetches[i].status # "pending"

\* C12: nothing orders or drops the responses of overlapping create requests:
\* whenever a create request is answered with an intent, that intent becomes
\* the stored reference, also when a request issued later was answered first.
C12_LateResponseStillStored ==
  [][ \A i \in 1..Len(fetches) :
        ( /\ fetches[i].url = "/payment_intents"
          /\ fetches[i].status = "pending"
          /\ fetches'[i].status = "ok" )
        => paymentIntent' = [kind |-> "intent", req |-> i] ]_vars

\* Two create requests of two edits, both answered with an intent, the later
\* one first (else its intent would be the stored one); nothing is in flight
\* and the stored reference is that of the earlier snapshot, not the current
\* line items.
C12_Witness ==
  \E i, j \in Creates :
    /\ i < j
    /\ fetches[i].status = "ok"
    /\ fetches[j].status = "ok"
    /\ Quiet
    /\ paymentIntent = [kind |-> "intent", req |-> i]
    /\ fetches[i].items # getLineItemsOf(lineItems)
    /\ fetches[j].items = getLineItemsOf(lineItems)

\* C13 as stated: once rendered, each line item's quantity is the entry of
\* the quantity map of its product, whatever the inputs of the edits were.
C13_LineItemQuantityIsMapEntry ==
  Rendered =>
    \A i \in 1..Len(lineItems) :
      lineItems[i].quantity = Num(quantity[lineItems[i].product])

\* C14 as stated: once an intent reference is stored, no edit and no response
\* (successful, failed, or carrying an error field) replaces it by anything
\* but another intent reference.
C14_StoredIntentNeverCleared ==
  [][ paymentIntent.kind = "intent" => paymentIntent'.kind = "intent" ]_vars

\* C15 as stated: every edit made once the inputs are rendered, whatever the
\* state of getConfig, returns without throwing and, if a line item is then
\* non-zero, has issued one create request carrying the post-edit line items
\* and the configured currency.
C15_EditNeverThrows ==
  [][ \A id \in ProductIds, value \in InputValues :
        (Rendered /\ id \in dom.inputs /\ UpdateQuantity(id, value)) =>
          /\ lastEdit'.outcome = "returned"
          /\ SomeTruthy(lineItems') =>
               /\ Len(fetches') = Len(fetches) + 1
               /\ fetches'[Len(fetches')].url = "/payment_intents"
               /\ fetches'[Len(fetches')].items = getLineItemsOf(lineItems')
               /\ fetches'[Len(fetches')].currency = config.currency ]_vars

\* A response to a payment-intent or charge request is handled.
ResponseStep ==
  \/ IntentCreated \/ IntentRefused \/ IntentFailed
  \/ ShippingAnswered \/ ShippingFailed
  \/ ChargeAnswered \/ ChargeFailed

\* The executor of loadProducts runs on after a response.
LoadStep == ProductsLoaded \/ SkusLoaded \/ SkusFailed

EditStep == \E id \in ProductIds, value \in InputValues : UpdateQuantity(id, value)

Fairness ==
  /\ WF_vars(ProductsLoaded \/ ProductsFailed)
  /\ WF_vars(SkusLoaded \/ SkusFailed)
  /\ WF_vars(ConfigLoaded \/ ConfigFailed)
  /\ WF_vars(IntentCreated \/ IntentRefused \/ IntentFailed)
  /\ WF_vars(ShippingAnswered \/ ShippingFailed)
  /\ WF_vars(ChargeAnswered \/ ChargeFailed)

FairSpec == Init /\ [][Next]_vars /\ Fairness

\* C17 as stated: if every fetch is answered, the promise of loadProducts is
\* settled in the end and displayPaymentSummary has ended, with the summary
\* rendered or with an error.
C17_InitializationFinishes ==
  <>(productsFetchPromise.state # "pending" /\ displayPc # "awaitLoad")

====
